---- MODULE Spec2Model ----
(***************************************************************************)
(* Character-level n-gram language model of the notebook                   *)
(* "nbs/n-gram music reviews.ipynb": train_char_lm, perplexity and         *)
(* generate_text, modelled as a state machine.                             *)
(*                                                                         *)
(* Strings are sequences of one-character strings.  A Python dict is a     *)
(* sequence of <<key, value>> pairs in insertion order.  A probability     *)
(* cnt / s is the rational <<num, den>> in lowest terms.  The float        *)
(* logsum is the sequence of the rationals whose logarithms were added.    *)
(***************************************************************************)
EXTENDS Integers, Sequences, FiniteSets, TLC

\* ------------------------------------------------------------------ bounds
MaxDocs == 3
MaxStream == 6
MaxN == 2
MaxTestDocs == 2
MaxTestStream == 4
MaxGenerate == 2
MaxSampleDocs == 2
MaxSampleStream == 4
MaxNegative == 1
MaxCalls == 2
MaxCallStream == 3
DrawSteps == 4

Alphabet == {"a", "b"}
Pad == "~"
\* ten documents after which "~" is followed by a once, b three times, c once
\* and "~" four times, in that order of first appearance
SkewedCorpus ==
    <<<<"a">>, <<"b">>, <<"b">>, <<"b">>, <<"c">>, <<>>, <<>>, <<>>, <<>>, <<>>>>

\* the sentence of the notebook's test of perplexity, and its corruption
Wheel ==
    <<"T", "h", "e", " ", "w", "h", "e", "e", "l", " ", "h", "a", "s",
      " ", "c", "o", "m", "e", " ", "f", "u", "l", "l", " ", "c", "i",
      "r", "c", "l", "e", ".">>
Corrupted ==
    <<"T", "h", "a", " ", "w", "e", "e", "e", "l", " ", "c", "o", "s",
      " ", "t", "o", "m", "e", " ", "h", "e", "l", "l", " ", "c", "i",
      "r", "c", "l", "e", ".">>

\* the sentence the notebook trains on and scores against its own model
Remix ==
    <<"T", "h", "i", "s", " ", "i", "s", " ", "t", "h", "e", " ", "r",
      "e", "m", "i", "x", ".">>

\* the sentence with one of its first characters replaced
MaxChangedPlace == 3
ChangedTo == {" ", "a"}
WheelChanged ==
    {[Wheel EXCEPT ![k] = c] : k \in 1..MaxChangedPlace, c \in ChangedTo}

StringsUpTo(len) == UNION {[1..k -> Alphabet] : k \in 0..len}

\* the lists of at most count documents whose padded stream has at most
\* budget characters
RECURSIVE DocLists(_, _, _)
DocLists(budget, order, count) ==
    IF count = 0 \/ budget < order THEN {<<>>}
    ELSE {<<>>} \cup
         UNION {{<<d>> \o rest :
                    rest \in DocLists(budget - order - Len(d), order, count - 1)} :
                d \in StringsUpTo(budget - order)}

TrainInputs(order) == DocLists(MaxStream, order, MaxDocs)
TestInputs(order) == DocLists(MaxTestStream, order, MaxTestDocs)
SampleInputs(order) == DocLists(MaxSampleStream, order, MaxSampleDocs)
CallInputs(order) == DocLists(MaxCallStream, order, 1)
Orders == 1..MaxN
\* the orders that are not positive
InvalidOrders == (0 - MaxNegative)..0
Symbols == Alphabet \cup {"c", Pad}
Histories(order) == [1..order -> Symbols]

\* ------------------------------------------------------------- arithmetic
RECURSIVE Gcd(_, _)
Gcd(a, b) == IF b = 0 THEN a ELSE Gcd(b, a % b)

\* the value of the true division num / den
Frac(num, den) == LET g == Gcd(num, den) IN <<num \div g, den \div g>>
RatAdd(p, q) == Frac(p[1] * q[2] + q[1] * p[2], p[2] * q[2])
RatLeq(p, q) == p[1] * q[2] <= q[1] * p[2]
One == <<1, 1>>
Zero == <<0, 1>>

\* ----------------------------------------------------------------- floats
\* A binary64 number in [0, 1] is held exactly as <<h, m, l>>, three limbs of
\* 20 bits: the value (h * 2^40 + m * 2^20 + l) / 2^60.  Every double in
\* [2^-7, 1], every draw of random() and every difference of two of them is a
\* multiple of 2^-60.
MantissaBits == 53
LimbBits == 20
Limb == 2^LimbBits
FloatOne == <<Limb, 0, 0>>
FloatZero == <<0, 0, 0>>

FloatLeq(a, b) ==
    \/ a[1] < b[1]
    \/ a[1] = b[1] /\ a[2] < b[2]
    \/ a[1] = b[1] /\ a[2] = b[2] /\ a[3] <= b[3]

\* how many of the 60 bits lie below the 53 significant ones
DroppedBits(f) ==
    IF f[1] >= Limb \/ f[1] < 2^(MantissaBits - 2 * LimbBits) THEN 0
    ELSE LET e == CHOOSE e \in 1..LimbBits :
                      2^(LimbBits - e) <= f[1] /\ f[1] < 2^(LimbBits - e + 1)
         IN  3 * LimbBits - (e + MantissaBits - 1)

Carry(f) ==
    IF f[3] < Limb THEN f
    ELSE IF f[2] + 1 < Limb THEN <<f[1], f[2] + 1, f[3] - Limb>>
    ELSE <<f[1] + 1, f[2] + 1 - Limb, f[3] - Limb>>

\* round to nearest, ties to even; sticky: a nonzero part lies below the limbs
RoundToNearestEven(f, sticky) ==
    LET d == DroppedBits(f)
        q == 2^d
        low == f[3] % q
        kept == f[3] - low
        up == \/ 2 * low > q
              \/ 2 * low = q /\ (sticky \/ (kept \div q) % 2 = 1)
    IN  IF d = 0 THEN f
        ELSE IF up THEN Carry(<<f[1], f[2], kept + q>>)
        ELSE <<f[1], f[2], kept>>

\* the limbs of floor(num / den * 2^60), and whether a remainder is left
Quotient(num, den) ==
    LET h == (num * Limb) \div den
        r1 == (num * Limb) % den
        m == (r1 * Limb) \div den
        r2 == (r1 * Limb) % den
        l == (r2 * Limb) \div den
        r3 == (r2 * Limb) % den
    IN  <<h, m, l, r3 # 0>>

\* the double num / den of two integers, 0 <= num <= den
FloatDiv(num, den) ==
    IF num = den THEN FloatOne
    ELSE LET q == Quotient(num, den)
         IN  RoundToNearestEven(<<q[1], q[2], q[3]>>, q[4])

\* the double a - b, for a > b
FloatSub(a, b) ==
    LET l == a[3] - b[3]
        bl == IF l < 0 THEN 1 ELSE 0
        m == a[2] - b[2] - bl
        bm == IF m < 0 THEN 1 ELSE 0
    IN  RoundToNearestEven(<<a[1] - b[1] - bm, m + bm * Limb, l + bl * Limb>>, FALSE)

\* random() returns a multiple of 2^-53 in [0, 1): here the largest one below
\* num / den, and the largest of all, 1 - 2^-53
DrawOf(num, den) ==
    LET q == Quotient(num, den)
        below == 2^(3 * LimbBits - MantissaBits)
    IN  <<q[1], q[2], q[3] - (q[3] % below)>>
LargestDraw == <<Limb - 1, Limb - 1, Limb - 2^(3 * LimbBits - MantissaBits)>>

\* ------------------------------------------------------------------ dicts
Keys(d) == {d[j][1] : j \in 1..Len(d)}
Has(d, k) == \E j \in 1..Len(d) : d[j][1] = k
Get(d, k) == d[CHOOSE j \in 1..Len(d) : d[j][1] = k][2]
Put(d, k, v) ==
    IF Has(d, k)
    THEN [j \in 1..Len(d) |-> IF d[j][1] = k THEN <<k, v>> ELSE d[j]]
    ELSE Append(d, <<k, v>>)
\* Counter()[c]: 0 for a missing key
CounterGet(counter, c) == IF Has(counter, c) THEN Get(counter, c) ELSE 0
\* defaultdict(Counter)[h]: an empty Counter for a missing key
DefaultGet(lmc, h) == IF Has(lmc, h) THEN Get(lmc, h) ELSE <<>>

RECURSIVE SumCounts(_)
SumCounts(counter) ==
    IF counter = <<>> THEN 0 ELSE Head(counter)[2] + SumCounts(Tail(counter))

RECURSIVE SumProbs(_)
SumProbs(dist) ==
    IF dist = <<>> THEN Zero ELSE RatAdd(Head(dist)[2], SumProbs(Tail(dist)))

\* ---------------------------------------------------------------- strings
PadOf(order) == [j \in 1..order |-> Pad]

\* the pad written after each document instead of before it
RECURSIVE MutantJoinPadAfter(_, _)
MutantJoinPadAfter(docs, order) ==
    IF docs = <<>> THEN <<>>
    ELSE (Head(docs) \o PadOf(order)) \o MutantJoinPadAfter(Tail(docs), order)

\* the pad written once, before the joined documents
RECURSIVE JoinPlain(_)
JoinPlain(docs) == IF docs = <<>> THEN <<>> ELSE Head(docs) \o JoinPlain(Tail(docs))
MutantJoinPadOnce(docs, order) ==
    IF docs = <<>> THEN <<>> ELSE PadOf(order) \o JoinPlain(docs)

\* ''.join([pad + text for text in texts])
RECURSIVE JoinPadded(_, _)
JoinPadded(docs, order) ==
    IF docs = <<>> THEN <<>>
    ELSE (PadOf(order) \o Head(docs)) \o JoinPadded(Tail(docs), order)

\* the next character read one place too early
MutantCharAt(stream, i, order) == stream[i + order]

\* seq[a:b] and seq[k] of Python, places counted from 0, a negative place
\* counted from the end
SlicePlace(seq, a) ==
    IF a < 0 THEN (IF a + Len(seq) < 0 THEN 0 ELSE a + Len(seq))
    ELSE IF a > Len(seq) THEN Len(seq) ELSE a
Slice(seq, a, b) == SubSeq(seq, SlicePlace(seq, a) + 1, SlicePlace(seq, b))
IndexPlace(seq, k) == IF k < 0 THEN k + Len(seq) ELSE k
ValidIndex(seq, k) == IndexPlace(seq, k) \in 0..(Len(seq) - 1)

\* data[i:i+order] and data[i+order], i counted from 0
HistoryAt(stream, i, order) == Slice(stream, i, i + order)
CharAt(stream, i, order) == stream[IndexPlace(stream, i + order) + 1]

\* -------------------------------------------------------------- normalize
\* add-one smoothing of the divisor
MutantNormalizeDivisor(counter) == SumCounts(counter) + 1

\* s = sum(counter.values())
NormalizeDivisor(counter) == SumCounts(counter)

normalize(counter) ==
    LET s == NormalizeDivisor(counter)
    IN  [j \in 1..Len(counter) |-> <<counter[j][1], Frac(counter[j][2], s)>>]

NormalizeAll(lmc) == [j \in 1..Len(lmc) |-> <<lmc[j][1], normalize(lmc[j][2])>>]

\* ------------------------------------------------------------------ state
VARIABLES
    pc,         \* which function is running, or what has returned
    texts,      \* train_char_lm: the documents
    n,          \* train_char_lm: the order
    data,       \* train_char_lm: the padded stream
    i,          \* train_char_lm: the loop index
    lm,         \* train_char_lm: the defaultdict(Counter) of counts
    outlm,      \* the trained model
    calls,      \* how many calls on the model have returned or raised
    test_data,  \* perplexity: the test documents
    pn,         \* perplexity: the order it is called with
    pdata,      \* perplexity: the padded test stream
    pi,         \* perplexity: the scan's loop index
    logsum,     \* perplexity: the rationals whose logarithms were added
    unk_hist,   \* perplexity: the defaultdict(int) of unknown outcomes
    uj,         \* perplexity: how many keys of unk_hist the last loop took
    gn,         \* generate_text: the order it is called with
    num_generate, \* generate_text: the length asked for
    history,    \* generate_text: the history
    out,        \* generate_text: the characters generated
    gi,         \* generate_text: the loop index
    draws,      \* generate_text: the values random() has returned to the call
    result      \* what the last call returned or raised

trainVars == <<texts, n, data, i, lm, outlm, calls>>
perpVars == <<test_data, pn, pdata, pi, logsum, unk_hist, uj>>
genVars == <<gn, num_generate, history, out, gi, draws>>
vars == <<pc, texts, n, data, i, lm, outlm, calls,
          test_data, pn, pdata, pi, logsum, unk_hist, uj,
          gn, num_generate, history, out, gi, draws, result>>

NoResult == [kind |-> "none", logsum |-> <<>>, divisor |-> 0, text |-> <<>>]

Init ==
    /\ pc = "idle"
    /\ texts = <<>>
    /\ n = 0
    /\ data = <<>>
    /\ i = 0
    /\ lm = <<>>
    /\ outlm = <<>>
    /\ calls = 0
    /\ test_data = <<>>
    /\ pn = 0
    /\ pdata = <<>>
    /\ pi = 0
    /\ logsum = <<>>
    /\ unk_hist = <<>>
    /\ uj = 0
    /\ gn = 0
    /\ num_generate = 0
    /\ history = <<>>
    /\ out = <<>>
    /\ gi = 0
    /\ draws = <<>>
    /\ result = NoResult

\* ---------------------------------------------------------- train_char_lm
TrainCall(docs, order) ==
    /\ pc = "idle"
    /\ pc' = "train"
    /\ texts' = docs
    /\ n' = order
    /\ data' = JoinPadded(docs, order)
    /\ i' = 0
    /\ lm' = <<>>
    /\ outlm' = <<>>
    /\ calls' = 0
    /\ test_data' = <<>>
    /\ pn' = 0
    /\ pdata' = <<>>
    /\ pi' = 0
    /\ logsum' = <<>>
    /\ unk_hist' = <<>>
    /\ uj' = 0
    /\ result' = NoResult
    /\ UNCHANGED genVars

CountStep(lmc, hist, char) ==
    Put(lmc, hist, Put(DefaultGet(lmc, hist), char,
                       CounterGet(DefaultGet(lmc, hist), char) + 1))

\* the counting loop stopped one window early: range(len(data)-n-1)
RECURSIVE MutantScanCounts(_, _, _, _)
MutantScanCounts(stream, order, from, lmc) ==
    IF from < Len(stream) - order - 1
    THEN MutantScanCounts(stream, order, from + 1,
                          CountStep(lmc, HistoryAt(stream, from, order),
                                    CharAt(stream, from, order)))
    ELSE lmc

\* the whole counting loop, from position from on
RECURSIVE ScanCounts(_, _, _, _)
ScanCounts(stream, order, from, lmc) ==
    IF from < Len(stream) - order
    THEN ScanCounts(stream, order, from + 1,
                    CountStep(lmc, HistoryAt(stream, from, order),
                              CharAt(stream, from, order)))
    ELSE lmc

TrainCounts(docs, order) == ScanCounts(JoinPadded(docs, order), order, 0, <<>>)

TrainStep ==
    /\ pc = "train"
    /\ i < Len(data) - n
    /\ ValidIndex(data, i + n)
    /\ lm' = CountStep(lm, HistoryAt(data, i, n), CharAt(data, i, n))
    /\ i' = i + 1
    /\ UNCHANGED <<pc, texts, n, data, outlm, calls, result>>
    /\ UNCHANGED perpVars
    /\ UNCHANGED genVars

TrainReturn ==
    /\ pc = "train"
    /\ ~(i < Len(data) - n)
    /\ outlm' = NormalizeAll(lm)
    /\ pc' = "trained"
    /\ UNCHANGED <<texts, n, data, i, lm, calls, result>>
    /\ UNCHANGED perpVars
    /\ UNCHANGED genVars

\* data[i+n] outside the stream, which a negative n allows
TrainIndexError ==
    /\ pc = "train"
    /\ i < Len(data) - n
    /\ ~ValidIndex(data, i + n)
    /\ result' = [kind |-> "IndexError", logsum |-> <<>>, divisor |-> 0, text |-> <<>>]
    /\ pc' = "failed"
    /\ UNCHANGED trainVars
    /\ UNCHANGED perpVars
    /\ UNCHANGED genVars

\* train_char_lm called with an order that is not positive
TrainInvalid ==
    /\ pc = "idle"
    /\ \E order \in InvalidOrders : \E docs \in SampleInputs(0) : TrainCall(docs, order)

\* the one corpus of the model with four different continuations of a history
TrainSkewed ==
    /\ pc = "idle"
    /\ TrainCall(SkewedCorpus, 1)

Train ==
    /\ pc = "idle"
    /\ \E order \in Orders : \E docs \in TrainInputs(order) : TrainCall(docs, order)

\* the single documents the repeated calls are run on
TrainBrief ==
    /\ pc = "idle"
    /\ \E order \in Orders : \E docs \in CallInputs(order) : TrainCall(docs, order)

\* lm = train_char_lm(['The wheel has come full circle.'], n=2)
TrainWheel ==
    /\ pc = "idle"
    /\ TrainCall(<<Wheel>>, 2)

\* lm = train_char_lm(['This is the remix.'], n=2)
TrainRemix ==
    /\ pc = "idle"
    /\ TrainCall(<<Remix>>, 2)

\* the shorter corpora generate_text is run on
TrainSample ==
    /\ pc = "idle"
    /\ \E order \in Orders : \E docs \in SampleInputs(order) : TrainCall(docs, order)

\* ------------------------------------------------------------- perplexity
PerplexityCall(docs, order) ==
    /\ pc = "trained"
    /\ pc' = "perplexity"
    /\ test_data' = docs
    /\ pn' = order
    /\ pdata' = JoinPadded(docs, order)
    /\ pi' = 0
    /\ logsum' = <<>>
    /\ unk_hist' = <<>>
    /\ uj' = 0
    /\ result' = NoResult
    /\ UNCHANGED trainVars
    /\ UNCHANGED genVars

Scanning == pc = "perplexity" /\ pi < Len(pdata) - pn
ScanHistory == HistoryAt(pdata, pi, pn)
ScanChar == CharAt(pdata, pi, pn)

\* an absent history recorded as an unknown outcome instead of being skipped
MutantPerplexitySkip ==
    /\ Scanning
    /\ ~Has(outlm, ScanHistory)
    /\ unk_hist' = Put(unk_hist, ScanHistory, CounterGet(unk_hist, ScanHistory) + 1)
    /\ pi' = pi + 1
    /\ UNCHANGED <<pc, test_data, pn, pdata, logsum, uj, result>>
    /\ UNCHANGED trainVars
    /\ UNCHANGED genVars

\* history not in lm: continue
PerplexitySkip ==
    /\ Scanning
    /\ ~Has(outlm, ScanHistory)
    /\ pi' = pi + 1
    /\ UNCHANGED <<pc, test_data, pn, pdata, logsum, unk_hist, uj, result>>
    /\ UNCHANGED trainVars
    /\ UNCHANGED genVars

\* char in dist: logsum += math.log(dist[char])
PerplexityScore ==
    /\ Scanning
    /\ Has(outlm, ScanHistory)
    /\ Has(Get(outlm, ScanHistory), ScanChar)
    /\ logsum' = Append(logsum, Get(Get(outlm, ScanHistory), ScanChar))
    /\ pi' = pi + 1
    /\ UNCHANGED <<pc, test_data, pn, pdata, unk_hist, uj, result>>
    /\ UNCHANGED trainVars
    /\ UNCHANGED genVars

\* the correction added at every unknown occurrence, during the scan
MutantPerplexityUnknown ==
    /\ Scanning
    /\ Has(outlm, ScanHistory)
    /\ ~Has(Get(outlm, ScanHistory), ScanChar)
    /\ unk_hist' = Put(unk_hist, ScanHistory, CounterGet(unk_hist, ScanHistory) + 1)
    /\ logsum' = Append(logsum, <<1, 2>>)
    /\ pi' = pi + 1
    /\ UNCHANGED <<pc, test_data, pn, pdata, uj, result>>
    /\ UNCHANGED trainVars
    /\ UNCHANGED genVars

\* char not in dist: unk_hist[history] += 1
PerplexityUnknown ==
    /\ Scanning
    /\ Has(outlm, ScanHistory)
    /\ ~Has(Get(outlm, ScanHistory), ScanChar)
    /\ unk_hist' = Put(unk_hist, ScanHistory, CounterGet(unk_hist, ScanHistory) + 1)
    /\ pi' = pi + 1
    /\ UNCHANGED <<pc, test_data, pn, pdata, logsum, uj, result>>
    /\ UNCHANGED trainVars
    /\ UNCHANGED genVars

\* s = sum(lm[h].values()) + 1
CorrectionDivisor(model, h) == RatAdd(SumProbs(Get(model, h)), One)
\* s taken for 1 / s
MutantCorrectionTerm(model, h) == CorrectionDivisor(model, h)

\* 1 / s
CorrectionTerm(model, h) ==
    LET s == CorrectionDivisor(model, h) IN Frac(s[2], s[1])

\* for h in unk_hist: logsum += math.log(1 / s)
PerplexityCorrect ==
    /\ pc = "perplexity"
    /\ ~(pi < Len(pdata) - pn)
    /\ uj < Len(unk_hist)
    /\ logsum' = Append(logsum, CorrectionTerm(outlm, unk_hist[uj + 1][1]))
    /\ uj' = uj + 1
    /\ UNCHANGED <<pc, test_data, pn, pdata, pi, unk_hist, result>>
    /\ UNCHANGED trainVars
    /\ UNCHANGED genVars

\* the divisor len(data) - n, the number of scanned positions
MutantPerplexityValue(terms, length) ==
    IF length - pn = 0
    THEN [kind |-> "ZeroDivisionError", logsum |-> <<>>, divisor |-> 0, text |-> <<>>]
    ELSE [kind |-> "float", logsum |-> terms, divisor |-> length - pn, text |-> <<>>]

\* return math.exp(-1 * logsum / len(data))
PerplexityValue(terms, length) ==
    IF length = 0
    THEN [kind |-> "ZeroDivisionError", logsum |-> <<>>, divisor |-> 0, text |-> <<>>]
    ELSE [kind |-> "float", logsum |-> terms, divisor |-> length, text |-> <<>>]

PerplexityReturn ==
    /\ pc = "perplexity"
    /\ ~(pi < Len(pdata) - pn)
    /\ ~(uj < Len(unk_hist))
    /\ result' = PerplexityValue(logsum, Len(pdata))
    /\ pc' = "scored"
    /\ UNCHANGED perpVars
    /\ UNCHANGED genVars
    /\ UNCHANGED trainVars
    /\ UNCHANGED genVars

Perplexity ==
    /\ pc = "trained"
    /\ \E order \in Orders : \E docs \in TestInputs(order) : PerplexityCall(docs, order)

\* perplexity on the single documents of the repeated calls
PerplexityBrief ==
    /\ pc = "trained"
    /\ \E order \in Orders : \E docs \in CallInputs(order) : PerplexityCall(docs, order)

\* perplexity(lm, ['Tha weeel cos tome hell circle.'], 2) and
\* perplexity(lm, ['The wheel has come full circle.'], 2)
PerplexityWheel ==
    /\ pc = "trained"
    /\ texts = <<Wheel>> /\ n = 2
    /\ \E sentence \in {Corrupted, Wheel} : PerplexityCall(<<sentence>>, 2)

\* perplexity(lm, ['This is the remix.'], 2)
PerplexityRemix ==
    /\ pc = "trained"
    /\ texts = <<Remix>> /\ n = 2
    /\ PerplexityCall(<<Remix>>, 2)

\* perplexity(lm, [d], 2) for the sentence d with one character replaced
PerplexityChanged ==
    /\ pc = "trained"
    /\ texts = <<Wheel>> /\ n = 2
    /\ \E sentence \in WheelChanged : PerplexityCall(<<sentence>>, 2)

\* ---------------------------------------------------------- generate_text
NoChar == "None"
Draws == {DrawOf(k, DrawSteps) : k \in 0..(DrawSteps - 1)} \cup {LargestDraw}

\* the history never cut back to its last k characters
MutantSuffix(seq, k) == seq

\* seq[-k:]
Suffix(seq, k) ==
    IF k = 0 \/ Len(seq) <= k THEN seq ELSE SubSeq(seq, Len(seq) - k + 1, Len(seq))

\* for c, v in dist.items(): x = x - v; if x <= 0: return c
RECURSIVE Walk(_, _, _)
Walk(dist, j, x) ==
    IF j > Len(dist) THEN NoChar
    ELSE LET v == FloatDiv(dist[j][2][1], dist[j][2][2])
         IN  IF FloatLeq(x, v) THEN dist[j][1]
             ELSE Walk(dist, j + 1, FloatSub(x, v))

\* generate_letter, the lookup lm[history] having succeeded, for the draw x
generate_letter(model, hist, order, x) == Walk(Get(model, Suffix(hist, order)), 1, x)

\* the history started as a single pad character, not as n of them
MutantGenerateCall(order, length) ==
    /\ pc' = "generate"
    /\ gn' = order
    /\ num_generate' = length
    /\ history' = <<Pad>>
    /\ out' = <<>>
    /\ gi' = 0
    /\ draws' = <<>>
    /\ result' = NoResult
    /\ UNCHANGED trainVars
    /\ UNCHANGED perpVars

\* history = '~' * n; out = []
GenerateCall(order, length) ==
    /\ pc' = "generate"
    /\ gn' = order
    /\ num_generate' = length
    /\ history' = PadOf(order)
    /\ out' = <<>>
    /\ gi' = 0
    /\ draws' = <<>>
    /\ result' = NoResult
    /\ UNCHANGED trainVars
    /\ UNCHANGED perpVars

Generate ==
    /\ pc = "trained"
    /\ \E order \in Orders, length \in 0..MaxGenerate : GenerateCall(order, length)

Generating == pc = "generate" /\ gi < num_generate
Raised(kind) == [kind |-> kind, logsum |-> <<>>, divisor |-> 0, text |-> <<>>]

\* dist = lm[history] with the history not in the model
GenerateKeyError ==
    /\ Generating
    /\ ~Has(outlm, Suffix(history, gn))
    /\ result' = Raised("KeyError")
    /\ pc' = "failed"
    /\ UNCHANGED genVars
    /\ UNCHANGED trainVars
    /\ UNCHANGED perpVars

\* the character sampled with a draw of another source than the one recorded
MutantGenerateLetter(x) ==
    /\ Generating
    /\ Has(outlm, Suffix(history, gn))
    /\ \E y \in Draws :
           LET c == generate_letter(outlm, history, gn, y)
           IN  /\ c # NoChar
               /\ history' = Append(Suffix(history, gn), c)
               /\ out' = Append(out, c)
    /\ gi' = gi + 1
    /\ draws' = Append(draws, x)
    /\ UNCHANGED <<pc, gn, num_generate, result>>
    /\ UNCHANGED trainVars
    /\ UNCHANGED perpVars

\* c = generate_letter(...); history = history[-n:] + c; out.append(c)
GenerateLetter(x) ==
    /\ Generating
    /\ Has(outlm, Suffix(history, gn))
    /\ LET c == generate_letter(outlm, history, gn, x)
       IN  /\ c # NoChar
           /\ history' = Append(Suffix(history, gn), c)
           /\ out' = Append(out, c)
    /\ gi' = gi + 1
    /\ draws' = Append(draws, x)
    /\ UNCHANGED <<pc, gn, num_generate, result>>
    /\ UNCHANGED trainVars
    /\ UNCHANGED perpVars

\* generate_letter falls off the end of its loop and returns None;
\* history[-n:] + None raises TypeError
GenerateTypeError(x) ==
    /\ Generating
    /\ Has(outlm, Suffix(history, gn))
    /\ generate_letter(outlm, history, gn, x) = NoChar
    /\ result' = Raised("TypeError")
    /\ pc' = "failed"
    /\ draws' = Append(draws, x)
    /\ UNCHANGED <<gn, num_generate, history, out, gi>>
    /\ UNCHANGED trainVars
    /\ UNCHANGED perpVars

\* return ''.join(out)
GenerateReturn ==
    /\ pc = "generate"
    /\ ~(gi < num_generate)
    /\ result' = [kind |-> "str", logsum |-> <<>>, divisor |-> 0, text |-> out]
    /\ pc' = "generated"
    /\ UNCHANGED genVars
    /\ UNCHANGED trainVars
    /\ UNCHANGED perpVars

GenerateStep == \E x \in Draws : GenerateLetter(x) \/ GenerateTypeError(x)

\* ------------------------------------------------------- one call after another
\* perplexity or generate_text has returned or raised
Returned ==
    \/ pc \in {"scored", "generated"}
    \/ pc = "failed" /\ result.kind \in {"KeyError", "TypeError"}

\* a lookup that adds the missing history to the model, as the lookup of a
\* defaultdict would
MutantNextCall ==
    /\ Returned
    /\ calls < MaxCalls
    /\ calls' = calls + 1
    /\ outlm' = IF result.kind = "KeyError"
                 THEN Append(outlm, <<Suffix(history, gn), <<>>>>)
                 ELSE outlm
    /\ pc' = "trained"
    /\ test_data' = <<>> /\ pn' = 0 /\ pdata' = <<>> /\ pi' = 0
    /\ logsum' = <<>> /\ unk_hist' = <<>> /\ uj' = 0
    /\ gn' = 0 /\ num_generate' = 0 /\ history' = <<>> /\ out' = <<>>
    /\ gi' = 0 /\ draws' = <<>>
    /\ result' = NoResult
    /\ UNCHANGED <<texts, n, data, i, lm>>

\* the call is over and its locals are gone; the same lm is passed to the
\* next call
NextCall ==
    /\ Returned
    /\ calls < MaxCalls
    /\ calls' = calls + 1
    /\ pc' = "trained"
    /\ test_data' = <<>> /\ pn' = 0 /\ pdata' = <<>> /\ pi' = 0
    /\ logsum' = <<>> /\ unk_hist' = <<>> /\ uj' = 0
    /\ gn' = 0 /\ num_generate' = 0 /\ history' = <<>> /\ out' = <<>>
    /\ gi' = 0 /\ draws' = <<>>
    /\ result' = NoResult
    /\ UNCHANGED <<texts, n, data, i, lm, outlm>>

Next ==
    \/ Train
    \/ TrainSample
    \/ TrainBrief
    \/ TrainSkewed
    \/ TrainWheel
    \/ TrainRemix
    \/ TrainInvalid
    \/ TrainIndexError
    \/ TrainStep
    \/ TrainReturn
    \/ Perplexity
    \/ PerplexityBrief
    \/ PerplexityWheel
    \/ PerplexityRemix
    \/ PerplexityChanged
    \/ PerplexitySkip
    \/ PerplexityScore
    \/ PerplexityUnknown
    \/ PerplexityCorrect
    \/ PerplexityReturn
    \/ Generate
    \/ GenerateKeyError
    \/ GenerateStep
    \/ GenerateReturn
    \/ NextCall

Spec == Init /\ [][Next]_vars

\* training alone, on the small corpora
NextTrain ==
    \/ Train
    \/ TrainStep
    \/ TrainReturn

SpecTrain == Init /\ [][NextTrain]_vars

\* training on the small corpora, then one call of perplexity
NextPerplexity ==
    \/ NextTrain
    \/ Perplexity
    \/ PerplexitySkip
    \/ PerplexityScore
    \/ PerplexityUnknown
    \/ PerplexityCorrect
    \/ PerplexityReturn

SpecPerplexity == Init /\ [][NextPerplexity]_vars

\* training on the shorter corpora, then one call of generate_text
NextGenerate ==
    \/ TrainSample
    \/ TrainSkewed
    \/ TrainStep
    \/ TrainReturn
    \/ Generate
    \/ GenerateKeyError
    \/ GenerateStep
    \/ GenerateReturn

SpecGenerate == Init /\ [][NextGenerate]_vars

\* training on one short document, then calls of perplexity and of
\* generate_text on the model, one after another
NextCalls ==
    \/ TrainBrief
    \/ TrainSkewed
    \/ TrainStep
    \/ TrainReturn
    \/ Generate
    \/ GenerateKeyError
    \/ GenerateStep
    \/ GenerateReturn
    \/ PerplexityBrief
    \/ PerplexitySkip
    \/ PerplexityScore
    \/ PerplexityUnknown
    \/ PerplexityCorrect
    \/ PerplexityReturn
    \/ NextCall

SpecCalls == Init /\ [][NextCalls]_vars

\* training with an order that is not positive
NextInvalid ==
    \/ TrainInvalid
    \/ TrainStep
    \/ TrainIndexError
    \/ TrainReturn

SpecInvalid == Init /\ [][NextInvalid]_vars

\* the notebook's test of perplexity on the sentence and on its corruption
NextWheel ==
    \/ TrainWheel
    \/ TrainStep
    \/ TrainReturn
    \/ PerplexityWheel
    \/ PerplexitySkip
    \/ PerplexityScore
    \/ PerplexityUnknown
    \/ PerplexityCorrect
    \/ PerplexityReturn

SpecWheel == Init /\ [][NextWheel]_vars

\* perplexity on the shorter corpora
NextSample ==
    \/ TrainSample
    \/ TrainStep
    \/ TrainReturn
    \/ Perplexity
    \/ PerplexitySkip
    \/ PerplexityScore
    \/ PerplexityUnknown
    \/ PerplexityCorrect
    \/ PerplexityReturn

SpecSample == Init /\ [][NextSample]_vars

\* the same, and the sentence the notebook scores against the model trained
\* on it
NextSelf ==
    \/ NextSample
    \/ TrainRemix
    \/ PerplexityRemix

SpecSelf == Init /\ [][NextSelf]_vars

\* the notebook's test of perplexity, and the sentence with one character
\* replaced scored against the same model
NextChanged ==
    \/ NextWheel
    \/ PerplexityChanged

SpecChanged == Init /\ [][NextChanged]_vars

\* ------------------------------------------------------------------ claims
Trained == pc \notin {"idle", "train"}

\* C1: in a trained model (order n >= 1) the probabilities of every history's
\* distribution sum to exactly 1, the history's counts summing to the divisor
\* normalize used.
C1_DistributionsSumToOne ==
    (Trained /\ n >= 1) =>
        \A h \in Keys(outlm) :
            /\ SumProbs(Get(outlm, h)) = One
            /\ \A j \in 1..Len(Get(outlm, h)) :
                   RatLeq(Zero, Get(outlm, h)[j][2]) /\ RatLeq(Get(outlm, h)[j][2], One)

C1_Witness ==
    /\ Trained
    /\ \E h \in Keys(outlm) :
           /\ Len(Get(outlm, h)) >= 2
           /\ SumCounts(Get(lm, h)) >= 3
           /\ SumProbs(Get(outlm, h)) = One

\* the positions of the stream where history h is followed by anything, and by c
PositionsOfHistory(stream, order, h) ==
    {p \in 0..(Len(stream) - order - 1) : SubSeq(stream, p + 1, p + order) = h}
PositionsOfPair(stream, order, h, c) ==
    {p \in PositionsOfHistory(stream, order, h) : stream[p + order + 1] = c}

\* C2: the trained model is the unsmoothed maximum-likelihood estimate of the
\* padded stream: model[h][c] exists exactly when h is followed by c somewhere
\* in the stream, and is then (occurrences of h followed by c) / (occurrences
\* of h followed by anything); no entry is 0.
C2_MaximumLikelihood ==
    (Trained /\ n >= 1) =>
        \A h \in Histories(n), c \in Symbols :
            LET hc == Cardinality(PositionsOfPair(data, n, h, c))
                hh == Cardinality(PositionsOfHistory(data, n, h))
                present == Has(outlm, h) /\ Has(Get(outlm, h), c)
            IN  /\ Has(outlm, h) <=> hh > 0
                /\ present <=> hc > 0
                /\ present => /\ Get(Get(outlm, h), c) = Frac(hc, hh)
                               /\ Get(Get(outlm, h), c)[1] > 0

C2_Witness ==
    /\ Trained
    /\ \E h \in Histories(n), c \in Symbols :
           /\ Has(outlm, h)
           /\ ~Has(Get(outlm, h), c)
           /\ \E d \in Symbols : Has(Get(outlm, h), d) /\ Get(Get(outlm, h), d) = <<2, 3>>

\* where document k starts in the padded stream (counted from 0)
RECURSIVE SegmentStart(_, _, _)
SegmentStart(docs, order, k) ==
    IF k = 1 THEN 0
    ELSE SegmentStart(docs, order, k - 1) + order + Len(docs[k - 1])

IsPaddedConcatenation(stream, docs, order) ==
    /\ Len(stream) = SegmentStart(Append(docs, <<>>), order, Len(docs) + 1)
    /\ docs = <<>> => stream = <<>>
    /\ \A k \in 1..Len(docs) :
           LET start == SegmentStart(docs, order, k)
           IN  /\ \A j \in 1..order : stream[start + j] = Pad
               /\ \A j \in 1..Len(docs[k]) : stream[start + order + j] = docs[k][j]

\* C3: the stream of training and of perplexity is the concatenation, in input
\* order, of n pad characters followed by the document, for each document; its
\* length is the sum of n + len(document); no documents give the empty stream.
C3_StreamIsPaddedConcatenation ==
    /\ (pc # "idle" /\ n >= 1) => IsPaddedConcatenation(data, texts, n)
    /\ (pc \in {"perplexity", "scored"} /\ pn >= 1) =>
           IsPaddedConcatenation(pdata, test_data, pn)

C3_Witness ==
    /\ pc = "perplexity"
    /\ Len(texts) = 3 /\ texts[1] # texts[2] /\ texts[1] # <<>> /\ texts[2] # <<>>
    /\ Len(test_data) = 2 /\ test_data[1] # <<>> /\ test_data[2] # <<>>
    /\ test_data[1] # test_data[2]
    /\ Len(pdata) = 2 * pn + Len(test_data[1]) + Len(test_data[2])

Orderings(k) ==
    {p \in [1..k -> 1..k] : \A a, b \in 1..k : p[a] = p[b] => a = b}
Reordered(docs, p) == [j \in 1..Len(docs) |-> docs[p[j]]]
CountOf(lmc, h, c) == CounterGet(DefaultGet(lmc, h), c)
SameCounts(lmc1, lmc2, order, chars) ==
    \A h \in Histories(order), c \in chars : CountOf(lmc1, h, c) = CountOf(lmc2, h, c)

\* C4 as stated: training on any reordering of the documents gives the same
\* count for every (history, character) pair.
C4_OrderNeverMatters ==
    (Trained /\ n >= 1) =>
        \A p \in Orderings(Len(texts)) :
            SameCounts(lm, TrainCounts(Reordered(texts, p), n), n, Symbols)

\* C4 amended: a reordering leaves the count of every pair whose character is
\* not the pad unchanged, and leaves every count unchanged when the same
\* document stays last.
C4_OrderMattersOnlyAtTheEnd ==
    (Trained /\ n >= 1) =>
        \A p \in Orderings(Len(texts)) :
            LET other == TrainCounts(Reordered(texts, p), n)
            IN  /\ SameCounts(lm, other, n, Symbols \ {Pad})
                /\ (texts # <<>> /\ p[Len(texts)] = Len(texts)) =>
                       SameCounts(lm, other, n, {Pad})

C4_Witness ==
    /\ Trained
    /\ Len(texts) = 3
    /\ \E p \in Orderings(3) :
           /\ p[3] = 3
           /\ Reordered(texts, p) # texts
           /\ JoinPadded(Reordered(texts, p), n) # data
           /\ SameCounts(lm, TrainCounts(Reordered(texts, p), n), n, Symbols)
    /\ \E p \in Orderings(3) :
           ~SameCounts(lm, TrainCounts(Reordered(texts, p), n), n, Symbols)

\* ------------------------------------------------------- perplexity claims
InPerplexity == pc \in {"perplexity", "scored"}
TestHistory(p) == SubSeq(pdata, p + 1, p + pn)
TestChar(p) == pdata[p + pn + 1]
TestPositions == 0..(Len(pdata) - pn - 1)
\* the positions before upto of each of the three kinds
SkippedPositions(upto) ==
    {p \in 0..(upto - 1) : ~Has(outlm, TestHistory(p))}
ScoredPositions(upto) ==
    {p \in 0..(upto - 1) :
        Has(outlm, TestHistory(p)) /\ Has(Get(outlm, TestHistory(p)), TestChar(p))}
UnknownPositions(upto) ==
    {p \in 0..(upto - 1) :
        Has(outlm, TestHistory(p)) /\ ~Has(Get(outlm, TestHistory(p)), TestChar(p))}
UnknownHistories(upto) == {TestHistory(p) : p \in UnknownPositions(upto)}
\* the terms the correction loop has appended
CorrectionTermAt(j) == logsum[Len(logsum) - uj + j]
TrainingCount(h) == SumCounts(Get(lm, h))

\* C5: for every history with unknown outcomes the correction term is
\* ln(1 / (count + 1)), count being the number of times the history was
\* observed in training.
C5_CorrectionUsesTrainingCount ==
    (InPerplexity /\ pn >= 1) =>
        \A j \in 1..uj :
            CorrectionTermAt(j) = Frac(1, TrainingCount(unk_hist[j][1]) + 1)

\* C6: one correction term per distinct history that is in the model and was
\* followed in the test stream by a character missing from its distribution,
\* however many times; the scan adds no term for such an occurrence.
C6_OneCorrectionPerHistory ==
    (InPerplexity /\ pn >= 1) =>
        /\ Len(logsum) = Cardinality(ScoredPositions(pi)) + uj
        /\ Keys(unk_hist) = UnknownHistories(pi)
        /\ Len(unk_hist) = Cardinality(UnknownHistories(pi))
        /\ \A h \in Keys(unk_hist) :
               Get(unk_hist, h) =
                   Cardinality({p \in UnknownPositions(pi) : TestHistory(p) = h})
        /\ Scanning => uj = 0
        /\ pc = "scored" =>
               /\ pi = Len(pdata) - pn \/ (pi = 0 /\ Len(pdata) < pn)
               /\ uj = Cardinality(UnknownHistories(pi))

C6_Witness ==
    /\ pc = "scored"
    /\ uj = 2
    /\ \E h \in Keys(unk_hist) : Get(unk_hist, h) >= 2
    /\ Cardinality(UnknownPositions(pi)) = 3
    /\ Len(logsum) = 2

\* the probabilities of the scored positions before upto, in scan order
RECURSIVE ScoredTerms(_)
ScoredTerms(upto) ==
    IF upto = 0 THEN <<>>
    ELSE IF (upto - 1) \in ScoredPositions(upto)
         THEN Append(ScoredTerms(upto - 1),
                     Get(Get(outlm, TestHistory(upto - 1)), TestChar(upto - 1)))
         ELSE ScoredTerms(upto - 1)

\* C7: a position whose history is not in the model adds nothing to the
\* log-sum and records no unknown outcome, and the final divisor is not
\* reduced for it.
C7_AbsentHistoryIsSkipped ==
    (InPerplexity /\ pn >= 1) =>
        /\ SubSeq(logsum, 1, Len(logsum) - uj) = ScoredTerms(pi)
        /\ \A h \in Keys(unk_hist) : Has(outlm, h)
        /\ Cardinality(ScoredPositions(pi)) + SumCounts(unk_hist)
               + Cardinality(SkippedPositions(pi)) = pi
        /\ (pc = "scored" /\ result.kind = "float") =>
               /\ pi = Len(pdata) - pn
               /\ result.divisor = Len(pdata)

C7_Witness ==
    /\ pc = "scored"
    /\ result.kind = "float"
    /\ Cardinality(SkippedPositions(pi)) >= 2
    /\ Cardinality(ScoredPositions(pi)) >= 1
    /\ result.divisor = Len(pdata)

RECURSIVE PaddedLength(_, _)
PaddedLength(docs, order) ==
    IF docs = <<>> THEN 0 ELSE order + Len(Head(docs)) + PaddedLength(Tail(docs), order)

\* C8: the divisor of exp(-logsum / divisor) is the length of the whole padded
\* test stream, the sum of n + len(document) over the test documents.
C8_DivisorIsPaddedLength ==
    (pc = "scored" /\ pn >= 1 /\ test_data # <<>>) =>
        /\ result.kind = "float"
        /\ result.divisor = PaddedLength(test_data, pn)

C8_Witness ==
    /\ pc = "scored"
    /\ Len(test_data) = 2
    /\ Cardinality(SkippedPositions(pi)) >= 1
    /\ result.divisor = 2 * pn + Len(test_data[1]) + Len(test_data[2])
    /\ result.divisor # Len(logsum)

\* the likelihood whose logarithm logsum is: the product of its terms
RatMul(p, q) == Frac(p[1] * q[1], p[2] * q[2])
RECURSIVE Likelihood(_)
Likelihood(terms) ==
    IF terms = <<>> THEN One ELSE RatMul(Head(terms), Likelihood(Tail(terms)))

\* C9: for a non-empty test corpus perplexity returns a value >= 1: every
\* term of the log-sum is the logarithm of a number in (0, 1], so the
\* likelihood exp(logsum) is in (0, 1] and exp(-logsum / divisor) >= 1.
C9_PerplexityAtLeastOne ==
    (InPerplexity /\ pn >= 1 /\ test_data # <<>>) =>
        /\ \A j \in 1..Len(logsum) :
               logsum[j][1] > 0 /\ RatLeq(logsum[j], One)
        /\ pc = "scored" =>
               /\ result.kind = "float"
               /\ result.divisor > 0
               /\ Likelihood(result.logsum)[1] > 0
               /\ RatLeq(Likelihood(result.logsum), One)

C9_Witness ==
    /\ pc = "scored"
    /\ result.kind = "float"
    /\ uj >= 1
    /\ Len(result.logsum) >= 3
    /\ Likelihood(result.logsum) # One
    /\ \E j \in 1..Len(result.logsum) : result.logsum[j] \notin {One, <<1, 2>>}

\* ---------------------------------------------------- generate_text claims
\* C10: generate_text terminates for every length L >= 0 and, unless a lookup
\* of the history fails, returns a string of exactly L characters after
\* exactly L sampling steps (the empty string for L = 0).
C10_GenerateReturnsLengthL ==
    (gn >= 1) =>
        /\ pc = "generate" =>
               /\ gi <= num_generate
               /\ Len(out) = gi
               /\ ENABLED (GenerateKeyError \/ GenerateStep \/ GenerateReturn)
        /\ pc = "generated" =>
               /\ result.kind = "str"
               /\ gi = num_generate
               /\ Len(result.text) = num_generate
        /\ pc = "failed" =>
               /\ result.kind = "KeyError"
               /\ ~Has(outlm, Suffix(history, gn))

\* What the code does instead: a call that ends after fewer than L steps has
\* either met a history that is not in the model, or drawn a number so close
\* to 1 that the walk of generate_letter ran off the end of the distribution.
GenerateOutcomes ==
    (gn >= 1) =>
        /\ pc = "generate" =>
               /\ gi <= num_generate
               /\ Len(out) = gi
               /\ ENABLED (GenerateKeyError \/ GenerateStep \/ GenerateReturn)
        /\ pc = "generated" =>
               /\ result.kind = "str"
               /\ gi = num_generate
               /\ Len(result.text) = num_generate
        /\ pc = "failed" =>
               /\ gi < num_generate
               /\ \/ result.kind = "KeyError" /\ ~Has(outlm, Suffix(history, gn))
                  \/ /\ result.kind = "TypeError"
                     /\ Has(outlm, Suffix(history, gn))
                     /\ generate_letter(outlm, history, gn, LargestDraw) = NoChar
                     /\ Len(Get(outlm, Suffix(history, gn))) >= 4

\* the current history of generate_text is not a key of the model
AtAbsentHistory == ~Has(outlm, Suffix(history, gn))
NoneEmitted == \A j \in 1..Len(out) : out[j] # NoChar

\* C11: when generation reaches a history that is not in the model it fails
\* at that step with UnknownHistoryError: no missing value is emitted or
\* appended to the output, and no further character is sampled.
C11_UnknownHistoryError ==
    (gn >= 1) =>
        /\ (Generating /\ AtAbsentHistory) =>
               ~ENABLED (GenerateStep \/ GenerateReturn)
        /\ (pc = "failed" /\ AtAbsentHistory) =>
               /\ result.kind = "UnknownHistoryError"
               /\ Len(out) = gi
               /\ NoneEmitted
        /\ pc = "generated" => NoneEmitted

\* What the code does there: the lookup lm[history] of the plain dict raises
\* KeyError, which ends generate_text at that step.
AbsentHistoryRaisesKeyError ==
    (gn >= 1) =>
        /\ (Generating /\ AtAbsentHistory) =>
               ~ENABLED (GenerateStep \/ GenerateReturn)
        /\ (pc = "failed" /\ AtAbsentHistory) =>
               /\ result.kind = "KeyError"
               /\ Len(out) = gi
               /\ NoneEmitted
        /\ pc = "generated" => NoneEmitted

\* the draw x, a multiple of 2^-60, is at most the rational p
DrawLeq(x, p) ==
    LET q == Quotient(p[1], p[2]) IN FloatLeq(x, <<q[1], q[2], q[3]>>)

\* the sum of the first j probabilities of dist
RECURSIVE Cumulative(_, _)
Cumulative(dist, j) ==
    IF j = 0 THEN Zero ELSE RatAdd(Cumulative(dist, j - 1), dist[j][2])

\* the first place of dist at which x minus the cumulative probability is <= 0
FirstReached(dist, x) ==
    {j \in 1..Len(dist) :
        /\ DrawLeq(x, Cumulative(dist, j))
        /\ \A k \in 1..(j - 1) : ~DrawLeq(x, Cumulative(dist, k))}

\* C12: a sampling step with a draw x in [0, 1) over a distribution that sums
\* to 1 always returns a character, the first one in iteration order at which
\* x minus the cumulative probability is <= 0; its probability is not zero
\* and the walk never falls off the end.
C12_WalkAlwaysReturns ==
    (Generating /\ gn >= 1 /\ ~AtAbsentHistory) =>
        LET dist == Get(outlm, Suffix(history, gn))
        IN  \A x \in Draws :
                LET c == generate_letter(outlm, history, gn, x)
                IN  /\ c # NoChar
                    /\ \E j \in FirstReached(dist, x) :
                           dist[j][1] = c /\ dist[j][2][1] > 0

\* what a run of generate_text on the model with the draws xs has produced
\* when the last of them has been used
RECURSIVE Replay(_, _, _)
Replay(model, order, xs) ==
    IF xs = <<>> THEN [out |-> <<>>, history |-> PadOf(order), kind |-> "running"]
    ELSE LET before == Replay(model, order, SubSeq(xs, 1, Len(xs) - 1))
             x == xs[Len(xs)]
             h == Suffix(before.history, order)
         IN  IF before.kind # "running" THEN before
             ELSE IF ~Has(model, h) THEN [before EXCEPT !.kind = "KeyError"]
             ELSE LET c == Walk(Get(model, h), 1, x)
                  IN  IF c = NoChar THEN [before EXCEPT !.kind = "TypeError"]
                      ELSE [out |-> Append(before.out, c),
                            history |-> Append(h, c),
                            kind |-> "running"]

InGenerate == pc \in {"generate", "generated", "failed"}

\* C13: the output of generate_text is a function of the model, the order,
\* the length and the sequence of values random() returned: two runs with the
\* same ones give the same string (or the same failure), and each sampling
\* step takes exactly one draw, from that sequence.
C13_OutputDeterminedByDraws ==
    (InGenerate /\ gn >= 1) =>
        LET run == Replay(outlm, gn, draws)
        IN  /\ out = run.out
            /\ history = run.history
            /\ Len(draws) <= num_generate
            /\ pc = "generate" => Len(draws) = gi /\ run.kind = "running"
            /\ pc = "generated" =>
                   /\ Len(draws) = num_generate
                   /\ run.kind = "running"
                   /\ result.kind = "str" /\ result.text = run.out
            /\ pc = "failed" =>
                   \/ /\ result.kind = "KeyError"
                      /\ Len(draws) = gi
                      /\ run.kind = "running"
                      /\ ~Has(outlm, Suffix(run.history, gn))
                   \/ /\ result.kind = "TypeError"
                      /\ Len(draws) = gi + 1
                      /\ run.kind = "TypeError"

C13_Witness ==
    /\ pc = "generated"
    /\ num_generate = 2
    /\ draws[1] # draws[2]
    /\ out[1] # out[2]
    /\ Len(Get(outlm, PadOf(gn))) >= 2
    /\ result.text = Replay(outlm, gn, draws).out

\* ------------------------------------------------------ failures of training
\* C14: train_char_lm with n <= 0 fails with InvalidOrderError before it
\* counts anything, and returns no model.
C14_InvalidOrderError ==
    (pc # "idle" /\ n <= 0) =>
        /\ i = 0
        /\ lm = <<>>
        /\ pc # "trained"
        /\ pc = "failed" => result.kind = "InvalidOrderError"

\* What the code does with such an order: with n = 0 it returns the model of
\* the single empty history; with n < 0 it raises IndexError on an empty
\* stream and otherwise returns a model whose histories are slices of the
\* stream of varying length.
InvalidOrderOutcomes ==
    (n <= 0) =>
        /\ pc = "failed" =>
               /\ result.kind = "IndexError"
               /\ n < 0 /\ i = 0 /\ data = <<>>
        /\ pc = "trained" =>
               /\ i = Len(data) - n
               /\ n = 0 => Keys(outlm) \subseteq {<<>>}
               /\ (n < 0 /\ Len(data) >= 2) =>
                      {<<>>, SubSeq(data, 1, Len(data) + n)} \subseteq Keys(outlm)

\* C15: when the padded training stream is no longer than n (no documents, or
\* one empty document) train_char_lm fails with EmptyStreamError and returns
\* no model.
C15_EmptyStreamError ==
    (pc # "idle" /\ n >= 1 /\ Len(data) <= n) =>
        /\ pc # "trained"
        /\ pc = "failed" => result.kind = "EmptyStreamError"

\* What the code does there: its loop runs zero times and it returns the
\* model without histories; no other stream gives that model.
EmptyStreamGivesEmptyModel ==
    (pc = "trained" /\ n >= 1) =>
        /\ result.kind = "none"
        /\ outlm = <<>> <=> Len(data) <= n
        /\ Len(data) <= n <=> (texts = <<>> \/ texts = <<<<>>>>)

\* ------------------------------------------------------- the empty model
\* C16: against a model without histories generate_text (L >= 1) and
\* perplexity (a test corpus that is not empty) fail explicitly: neither
\* returns a string or a perplexity.
C16_EmptyModelFails ==
    (Trained /\ outlm = <<>>) =>
        /\ (gn >= 1 /\ num_generate >= 1) => pc # "generated"
        /\ (pn >= 1 /\ test_data # <<>> /\ pc = "scored") => result.kind # "float"

\* What the code does with the empty model: generate_text raises KeyError at
\* its first lookup; perplexity skips every position and returns
\* exp(-0.0 / len(data)) = 1.0.
EmptyModelOutcomes ==
    (Trained /\ outlm = <<>>) =>
        /\ (gn >= 1 /\ num_generate >= 1) =>
               /\ pc # "generated"
               /\ pc = "failed" => result.kind = "KeyError" /\ gi = 0
        /\ (pn >= 1 /\ test_data # <<>> /\ pc = "scored") =>
               /\ result.kind = "float"
               /\ result.logsum = <<>>
               /\ unk_hist = <<>>
               /\ result.divisor = Len(pdata)

\* C17: perplexity with an empty test corpus fails with EmptyCorpusError and
\* returns no value, whatever the model and the order.
C17_EmptyCorpusError ==
    (pc = "scored" /\ pn >= 1 /\ test_data = <<>>) =>
        result.kind = "EmptyCorpusError"

\* What the code does there: the stream is empty and the final division by
\* len(data) raises ZeroDivisionError; no other corpus makes it raise.
EmptyCorpusDividesByZero ==
    (pc = "scored" /\ pn >= 1) =>
        /\ result.kind \in {"float", "ZeroDivisionError"}
        /\ result.kind = "ZeroDivisionError" <=> test_data = <<>>
        /\ test_data = <<>> => logsum = <<>> /\ pi = 0

\* ------------------------------------------------- one repeated character
RepeatedChar(d) == d # <<>> /\ \A j \in 1..Len(d) : d[j] = d[1]
\* trained with order 1 on one document, a character repeated
SingleRepeated == n = 1 /\ Len(texts) = 1 /\ RepeatedChar(texts[1])
AllProbabilityOn(c) ==
    \A h \in Keys(outlm) : Get(outlm, h) = <<<<c, One>>>>
OutputOnly(c) == \A j \in 1..Len(out) : out[j] = c

\* C18 as stated: such a model gives probability 1 to the character after
\* every history it holds, and generation of any length from it succeeds and
\* outputs only that character, for every k >= 1.
C18_RepeatedCharacterAlwaysGenerates ==
    (Trained /\ SingleRepeated) =>
        /\ AllProbabilityOn(texts[1][1])
        /\ (InGenerate /\ gn = 1) =>
               /\ pc # "failed"
               /\ OutputOnly(texts[1][1])
               /\ pc = "generated" => Len(result.text) = num_generate

\* C18 amended: the probabilities are as stated; generation succeeds and
\* outputs only the character when k >= 2 or L <= 1; with k = 1 and L >= 2 it
\* fails at its second step, the history made of the character not being in
\* the model.
C18_RepeatedCharacterGenerates ==
    (Trained /\ SingleRepeated) =>
        /\ AllProbabilityOn(texts[1][1])
        /\ (InGenerate /\ gn = 1) =>
               /\ OutputOnly(texts[1][1])
               /\ pc = "generated" =>
                      /\ Len(result.text) = num_generate
                      /\ result.text = out
                      /\ Len(texts[1]) >= 2 \/ num_generate <= 1
               /\ pc = "failed" =>
                      /\ Len(texts[1]) = 1 /\ num_generate >= 2
                      /\ result.kind = "KeyError"
                      /\ gi = 1
                      /\ Keys(outlm) = {<<Pad>>}
               /\ (pc = "generate" /\ Len(texts[1]) = 1 /\ gi = 1) =>
                      ~ENABLED (GenerateStep \/ GenerateReturn) \/ num_generate = 1

C18_Witness ==
    /\ pc = "generated"
    /\ SingleRepeated
    /\ Len(texts[1]) = 3
    /\ gn = 1
    /\ num_generate = 2
    /\ result.text = <<texts[1][1], texts[1][1]>>
    /\ Keys(outlm) = {<<Pad>>, <<texts[1][1]>>}

\* ------------------------------------------------- the notebook's test values
\* Natural numbers of any size: the digits in base 10^4, lowest first.
Base == 10^4
RECURSIVE ToBig(_)
ToBig(k) == IF k = 0 THEN <<>> ELSE <<k % Base>> \o ToBig(k \div Base)
RECURSIVE Strip(_)
Strip(a) ==
    IF a # <<>> /\ a[Len(a)] = 0 THEN Strip(SubSeq(a, 1, Len(a) - 1)) ELSE a
BigLeq(a, b) ==
    LET x == Strip(a)
        y == Strip(b)
    IN  \/ Len(x) < Len(y)
        \/ /\ Len(x) = Len(y)
           /\ \/ x = y
              \/ \E j \in 1..Len(x) :
                     x[j] < y[j] /\ \A k \in (j + 1)..Len(x) : x[k] = y[k]
Digit(a, j) == IF j <= Len(a) THEN a[j] ELSE 0
RECURSIVE BigAdd(_, _, _, _)
BigAdd(a, b, j, carry) ==
    IF j > Len(a) /\ j > Len(b) THEN (IF carry = 0 THEN <<>> ELSE <<carry>>)
    ELSE LET t == Digit(a, j) + Digit(b, j) + carry
         IN  <<t % Base>> \o BigAdd(a, b, j + 1, t \div Base)
\* a - b, for a >= b
RECURSIVE BigSub(_, _, _, _)
BigSub(a, b, j, borrow) ==
    IF j > Len(a) THEN <<>>
    ELSE LET t == Digit(a, j) - Digit(b, j) - borrow
         IN  IF t < 0 THEN <<t + Base>> \o BigSub(a, b, j + 1, 1)
             ELSE <<t>> \o BigSub(a, b, j + 1, 0)
RECURSIVE BigScale(_, _, _, _)
BigScale(a, d, j, carry) ==
    IF j > Len(a) THEN (IF carry = 0 THEN <<>> ELSE <<carry>>)
    ELSE LET t == a[j] * d + carry
         IN  <<t % Base>> \o BigScale(a, d, j + 1, t \div Base)
BigShift(a, k) == [j \in 1..k |-> 0] \o a
RECURSIVE BigMul(_, _, _)
BigMul(a, b, j) ==
    IF j > Len(b) THEN <<>>
    ELSE BigAdd(BigShift(BigScale(a, b[j], 1, 0), j - 1), BigMul(a, b, j + 1), 1, 0)

\* decimals with 16 places, as multiples of 10^-16
DecimalLimbs == 4
DecimalOne == BigShift(<<1>>, DecimalLimbs)
\* the product of two such decimals cut to 16 places, and the next decimal
\* above it
DecimalFloor(a, b) ==
    LET exact == BigMul(a, b, 1)
    IN  SubSeq(exact, DecimalLimbs + 1, Len(exact))
DecimalCeiling(a, b) == BigAdd(DecimalFloor(a, b), <<1>>, 1, 0)
\* decimals not above and not below a^k, by repeated squaring
RECURSIVE PowerFloor(_, _)
PowerFloor(a, k) ==
    IF k = 0 THEN DecimalOne
    ELSE IF k % 2 = 1 THEN DecimalFloor(PowerFloor(a, k - 1), a)
    ELSE LET half == PowerFloor(a, k \div 2) IN DecimalFloor(half, half)
RECURSIVE PowerCeiling(_, _)
PowerCeiling(a, k) ==
    IF k = 0 THEN DecimalOne
    ELSE IF k % 2 = 1 THEN DecimalCeiling(PowerCeiling(a, k - 1), a)
    ELSE LET half == PowerCeiling(a, k \div 2) IN DecimalCeiling(half, half)
PrintedCorrupted == <<3773, 7588, 6768, 3418, 1>>   \* 1.3418676875883773
PrintedWheel == <<6464, 8739, 7881, 1829, 1>>       \* 1.1829788187396464
Tolerance == <<0, 0, 100>>                          \* 10^-6
\* more than the rounding of the float operations of perplexity can move
\* its result
RoundingSlack == <<0, 1>>                           \* 10^-12

\* exp(-ln(likelihood) / divisor), the likelihood being the rational whose
\* logarithm logsum is, lies within the tolerance less the slack of value:
\* low^divisor <= 1 / likelihood <= high^divisor
WithinTolerance(likelihood, divisor, value) ==
    LET margin == BigSub(Tolerance, RoundingSlack, 1, 0)
        low == BigSub(value, margin, 1, 0)
        high == BigAdd(value, margin, 1, 0)
        inverse == BigMul(DecimalOne, ToBig(likelihood[2]), 1)
    IN  /\ likelihood[1] > 0 /\ divisor > 0
        /\ BigLeq(BigMul(PowerCeiling(low, divisor), ToBig(likelihood[1]), 1), inverse)
        /\ BigLeq(inverse, BigMul(PowerFloor(high, divisor), ToBig(likelihood[1]), 1))

\* C19: the model trained with order 2 on "The wheel has come full circle."
\* scores the same sentence with perplexity 1.1829788187396464 and the
\* corrupted sentence "Tha weeel cos tome hell circle." with perplexity
\* 1.3418676875883773, each within 10^-6.
C19_WheelPerplexities ==
    (pc = "scored" /\ texts = <<Wheel>> /\ n = 2 /\ pn = 2) =>
        /\ result.kind = "float"
        /\ test_data = <<Wheel>> =>
               WithinTolerance(Likelihood(result.logsum), result.divisor, PrintedWheel)
        /\ test_data = <<Corrupted>> =>
               WithinTolerance(Likelihood(result.logsum), result.divisor,
                               PrintedCorrupted)

C19_Witness ==
    /\ pc = "scored"
    /\ texts = <<Wheel>>
    /\ test_data = <<Corrupted>>
    /\ uj = 10
    /\ Cardinality(SkippedPositions(pi)) = 5
    /\ result.divisor = 33
    /\ WithinTolerance(Likelihood(result.logsum), result.divisor, PrintedCorrupted)
    /\ ~WithinTolerance(Likelihood(result.logsum), result.divisor, PrintedWheel)

\* ------------------------------------------------------ the model is read only
\* the histories with unknown outcomes before upto, in the order perplexity
\* meets them
RECURSIVE UnknownOrder(_)
UnknownOrder(upto) ==
    IF upto = 0 THEN <<>>
    ELSE LET before == UnknownOrder(upto - 1)
             h == TestHistory(upto - 1)
         IN  IF (upto - 1) \in UnknownPositions(upto)
                    /\ \A j \in 1..Len(before) : before[j] # h
             THEN Append(before, h)
             ELSE before

\* the terms of the log-sum of a call of perplexity that runs alone on the
\* model as training left it
AloneTerms ==
    LET model == NormalizeAll(TrainCounts(texts, n))
        positions == IF Len(pdata) < pn THEN 0 ELSE Len(pdata) - pn
        unknown == UnknownOrder(positions)
    IN  ScoredTerms(positions)
            \o [j \in 1..Len(unknown) |-> CorrectionTerm(model, unknown[j])]

\* C20: generate_text and perplexity leave the model as training returned it,
\* whatever calls were made on it before and whatever they met, so that what
\* a call returns is what it would return alone.
C20_ModelIsReadOnly ==
    (Trained /\ n >= 1) =>
        /\ lm = TrainCounts(texts, n)
        /\ outlm = NormalizeAll(TrainCounts(texts, n))
        /\ (pc = "scored" /\ result.kind = "float") =>
               /\ result.logsum = AloneTerms
               /\ result.divisor = Len(JoinPadded(test_data, pn))
        /\ (InGenerate /\ gn >= 1) =>
               out = Replay(NormalizeAll(TrainCounts(texts, n)), gn, draws).out

C20_Witness ==
    /\ calls = 2
    /\ pc = "scored"
    /\ result.kind = "float"
    /\ UnknownPositions(pi) # {}
    /\ SkippedPositions(pi) # {}
    /\ Len(outlm) >= 2
    /\ outlm = NormalizeAll(TrainCounts(texts, n))

\* ---------------------------------------------------------------------
\* The history of generate_text

\* the last k characters of seq, with as many as seq has when it is shorter
LastOf(seq, k) ==
    [j \in 1..(IF Len(seq) < k THEN Len(seq) ELSE k) |->
        seq[j + (IF Len(seq) < k THEN 0 ELSE Len(seq) - k)]]

\* the key generate_letter looks up: history[-n:]
LookupKey == Suffix(history, gn)

\* C21: throughout generate_text the history looked up at step k is the last
\* n characters of n pad characters followed by the k characters emitted so
\* far: n pads at step 0, then the oldest character dropped and the new one
\* appended after each emission, so that the key always has length n.
C21_HistoryIsLastNOfOutput ==
    InGenerate =>
        /\ Len(out) = gi
        /\ LookupKey = LastOf(PadOf(gn) \o out, gn)
        /\ Len(LookupKey) = gn
        /\ gi = 0 => LookupKey = PadOf(gn)
        /\ gi > 0 =>
               /\ LookupKey[gn] = out[gi]
               /\ \A j \in 1..(gn - 1) :
                      LookupKey[j] = LastOf(PadOf(gn) \o SubSeq(out, 1, gi - 1), gn)[j + 1]

\* two characters emitted at order 2: the key is the two of them, and the
\* history the code keeps is one character longer than the key
C21_Witness ==
    /\ pc = "generated"
    /\ gn = 2
    /\ gi = 2
    /\ Len(history) = 3
    /\ LookupKey = out
    /\ history[1] = Pad

\* ---------------------------------------------------------------------
\* perplexity evaluated on the parts of a partition of the test stream

\* the kind of the position p of the test stream, as the scan decides it
IsScored(p) ==
    Has(outlm, TestHistory(p)) /\ Has(Get(outlm, TestHistory(p)), TestChar(p))
IsUnknown(p) ==
    Has(outlm, TestHistory(p)) /\ ~Has(Get(outlm, TestHistory(p)), TestChar(p))

\* the scan of the positions first..(last - 1) alone: the product of the
\* probabilities whose logarithms it adds, and the histories it records
RECURSIVE PartScan(_, _)
PartScan(first, last) ==
    IF first >= last THEN One
    ELSE RatMul(IF IsScored(first)
                THEN Get(Get(outlm, TestHistory(first)), TestChar(first))
                ELSE One,
                PartScan(first + 1, last))
PartUnknown(first, last) ==
    {TestHistory(p) : p \in {q \in first..(last - 1) : IsUnknown(q)}}

\* the product of the correction terms of a set of histories
RECURSIVE Corrections(_)
Corrections(hs) ==
    IF hs = {} THEN One
    ELSE LET h == CHOOSE g \in hs : TRUE
         IN  RatMul(CorrectionTerm(outlm, h), Corrections(hs \ {h}))

\* the evaluator run on the positions first..(last - 1) alone, its scan
\* followed by its correction
PartLikelihood(first, last) ==
    RatMul(PartScan(first, last), Corrections(PartUnknown(first, last)))

\* the partitions of the positions 0..(count - 1) into contiguous parts, each
\* given by the set of positions at which a part other than the first starts
Cuts(count) == SUBSET (1..(count - 1))
PartEnd(first, cuts, count) ==
    IF \E c \in cuts : c > first
    THEN CHOOSE c \in cuts : c > first /\ \A d \in cuts : d > first => c <= d
    ELSE count
Parts(cuts, count) ==
    {<<first, PartEnd(first, cuts, count)>> : first \in cuts \cup {0}}

\* the sum of the log-sums of the parts, as the product of their likelihoods
RECURSIVE MergeByAddition(_)
MergeByAddition(parts) ==
    IF parts = {} THEN One
    ELSE LET part == CHOOSE q \in parts : TRUE
         IN  RatMul(PartLikelihood(part[1], part[2]),
                    MergeByAddition(parts \ {part}))
RECURSIVE MergeScans(_)
MergeScans(parts) ==
    IF parts = {} THEN One
    ELSE LET part == CHOOSE q \in parts : TRUE
         IN  RatMul(PartScan(part[1], part[2]), MergeScans(parts \ {part}))
MergeUnknown(parts) == UNION {PartUnknown(part[1], part[2]) : part \in parts}
\* a history with unknown outcomes in two parts
SharedUnknown(parts) ==
    \E q \in parts : \E r \in parts :
        q # r /\ PartUnknown(q[1], q[2]) \cap PartUnknown(r[1], r[2]) # {}

Evaluated == pc = "scored" /\ pn >= 1 /\ result.kind = "float"
PositionCount == Len(pdata) - pn

\* C22 as stated: for any partition of the test-stream positions into
\* contiguous parts, the sum of the log-sums computed independently on each
\* part, each part applying the scan and its after-scan correction, equals
\* the log-sum the evaluator computes on the whole stream.
C22_PartsAddUp ==
    Evaluated =>
        \A cuts \in Cuts(PositionCount) :
            MergeByAddition(Parts(cuts, PositionCount)) = Likelihood(result.logsum)

\* C22: the scans of the parts merge by addition and their sets of histories
\* with unknown outcomes by union, the correction being applied once to the
\* merged set: that is the log-sum of the whole stream. The sum of the
\* log-sums of parts that each applied their own correction equals it exactly
\* when no history has unknown outcomes in two parts, and is smaller when
\* one has.
C22_ScansAddUpCorrectionOnce ==
    Evaluated =>
        \A cuts \in Cuts(PositionCount) :
            LET parts == Parts(cuts, PositionCount)
                whole == Likelihood(result.logsum)
                each == MergeByAddition(parts)
            IN  /\ RatMul(MergeScans(parts), Corrections(MergeUnknown(parts))) = whole
                /\ (each = whole) <=> ~SharedUnknown(parts)
                /\ RatLeq(each, whole)

\* a stream cut between two positions that both meet an unknown character
\* after the same history
C22_Witness ==
    /\ Evaluated
    /\ \E cuts \in Cuts(PositionCount) :
           /\ SharedUnknown(Parts(cuts, PositionCount))
           /\ MergeByAddition(Parts(cuts, PositionCount)) # Likelihood(result.logsum)
    /\ ScoredPositions(PositionCount) # {}

\* ---------------------------------------------------------------------
\* counting on the chunks of a cut of the training stream

\* the chunk first..(last - 1) of the stream with the order characters that
\* follow it, as many of them as the stream has
Chunk(stream, first, last, order) ==
    SubSeq(stream, first + 1,
           IF last + order > Len(stream) THEN Len(stream) ELSE last + order)
\* the windows of width order + 1 inside the chunk, counted as training does
ChunkCounts(stream, first, last, order) ==
    ScanCounts(Chunk(stream, first, last, order), order, 0, <<>>)

\* the chunks of a cut, in the order of the stream
RECURSIVE ChunkList(_, _, _)
ChunkList(first, cuts, length) ==
    IF first >= length THEN <<>>
    ELSE LET last == PartEnd(first, cuts, length)
         IN  <<<<first, last>>>> \o ChunkList(last, cuts, length)
Reversed(seq) == [j \in 1..Len(seq) |-> seq[Len(seq) + 1 - j]]

\* the additive union of two count maps
RECURSIVE AddCounter(_, _)
AddCounter(counter, added) ==
    IF added = <<>> THEN counter
    ELSE AddCounter(Put(counter, Head(added)[1],
                        CounterGet(counter, Head(added)[1]) + Head(added)[2]),
                    Tail(added))
RECURSIVE MergeCounts(_, _)
MergeCounts(lmc, added) ==
    IF added = <<>> THEN lmc
    ELSE MergeCounts(Put(lmc, Head(added)[1],
                         AddCounter(DefaultGet(lmc, Head(added)[1]), Head(added)[2])),
                     Tail(added))
\* the partial count maps of the chunks merged one after the other
RECURSIVE MergeChunks(_, _, _)
MergeChunks(stream, chunks, order) ==
    IF chunks = <<>> THEN <<>>
    ELSE MergeCounts(MergeChunks(stream, SubSeq(chunks, 1, Len(chunks) - 1), order),
                     ChunkCounts(stream, chunks[Len(chunks)][1],
                                 chunks[Len(chunks)][2], order))

\* every count of lmc1 is the count lmc2 has for the same pair
CountsWithin(lmc1, lmc2) ==
    \A j \in 1..Len(lmc1) : \A k \in 1..Len(lmc1[j][2]) :
        CountOf(lmc2, lmc1[j][1], lmc1[j][2][k][1]) = lmc1[j][2][k][2]
EqualCounts(lmc1, lmc2) == CountsWithin(lmc1, lmc2) /\ CountsWithin(lmc2, lmc1)

\* C23: for any cut of the training stream into contiguous chunks, each
\* extended by the n characters that follow its boundary, counting the
\* windows of width n + 1 inside each chunk and adding the partial count maps
\* gives for every (history, character) pair the count of the single
\* sequential scan, whatever the cut points and the order of the merge.
C23_ChunkCountsAddUp ==
    (pc = "trained" /\ n >= 1) =>
        \A cuts \in Cuts(Len(data)) :
            LET chunks == ChunkList(0, cuts, Len(data))
            IN  /\ EqualCounts(lm, MergeChunks(data, chunks, n))
                /\ EqualCounts(lm, MergeChunks(data, Reversed(chunks), n))

\* a pair counted twice by the sequential scan and once in each of two
\* chunks of a cut into three
C23_Witness ==
    /\ pc = "trained"
    /\ n = 2
    /\ \E cuts \in Cuts(Len(data)) :
           LET chunks == ChunkList(0, cuts, Len(data))
           IN  /\ Len(chunks) = 3
               /\ \E j \in 1..Len(lm) : \E k \in 1..Len(lm[j][2]) :
                      /\ lm[j][2][k][2] = 2
                      /\ \E a, b \in 1..3 :
                             /\ a # b
                             /\ \A q \in {a, b} :
                                    CountOf(ChunkCounts(data, chunks[q][1], chunks[q][2], n),
                                            lm[j][1], lm[j][2][k][1]) = 1

\* ---------------------------------------------------------------------
\* the training document against strings of its length

\* the probabilities the model gives the characters of the training stream,
\* position by position, and exp of the sum of their logarithms
TrainingTerms ==
    [p \in 1..(Len(data) - n) |->
        Get(Get(outlm, HistoryAt(data, p - 1, n)), CharAt(data, p - 1, n))]
TrainingLikelihood == Likelihood(TrainingTerms)

\* one training document, one test document of the same length, same order
SameLengthTest ==
    /\ Evaluated
    /\ pn = n
    /\ Len(texts) = 1
    /\ Len(test_data) = 1
    /\ Len(test_data[1]) = Len(texts[1])

\* C24 as stated: for every model trained with order n on one document d and
\* every string d' of the length of d, perplexity(model, [d'], n) >=
\* perplexity(model, [d], n). Both values are exp(-logsum / divisor) with the
\* same divisor, so the inequality is that of the likelihoods reversed.
C24_TrainingDocumentScoresBest ==
    SameLengthTest =>
        /\ result.divisor = Len(data)
        /\ RatLeq(Likelihood(result.logsum), TrainingLikelihood)

\* C24: for the model trained with order 2 on "The wheel has come full
\* circle.", perplexity of "Tha weeel cos tome hell circle." is greater than
\* perplexity of the sentence itself.
C24_CorruptedScoresWorse ==
    (SameLengthTest /\ texts = <<Wheel>> /\ n = 2) =>
        /\ result.divisor = Len(data)
        /\ test_data = <<Wheel>> => Likelihood(result.logsum) = TrainingLikelihood
        /\ test_data = <<Corrupted>> =>
               /\ RatLeq(Likelihood(result.logsum), TrainingLikelihood)
               /\ Likelihood(result.logsum) # TrainingLikelihood

C24_Witness ==
    /\ SameLengthTest
    /\ texts = <<Wheel>>
    /\ test_data = <<Corrupted>>
    /\ Likelihood(result.logsum) = <<1, 16384>>
    /\ TrainingLikelihood = <<1, 256>>

\* a string of the same length that scores better than the sentence: its
\* third character replaced by a space
C24_ChangedScoresBetter ==
    /\ SameLengthTest
    /\ texts = <<Wheel>>
    /\ test_data = <<[Wheel EXCEPT ![3] = " "]>>
    /\ ~RatLeq(Likelihood(result.logsum), TrainingLikelihood)

\* ---------------------------------------------------------------------
\* the histories generation looks up

\* the places of the training stream at which the key occurs, and those at
\* which a character follows it
OccursAt(key) ==
    {p \in 0..(Len(data) - Len(key)) : SubSeq(data, p + 1, p + Len(key)) = key}
FollowedAt(key) == {p \in OccursAt(key) : p < Len(data) - Len(key)}
FinalHistory == LastOf(data, n)

\* generation with the order of training, from a model trained on a stream
\* longer than n
GeneratingFromTrained == InGenerate /\ gn = n /\ n >= 1 /\ Len(data) > n
LookupFailed == pc = "failed" /\ result.kind = "KeyError"

\* what holds of the lookups: the key is a length-n substring of the training
\* stream, is absent from the model only as the final n characters occurring
\* nowhere else, the all-pad history is present, and a lookup fails only
\* after the output has reproduced the end of the stream
LookupsFailOnlyAtTheEnd ==
    GeneratingFromTrained =>
        /\ Len(LookupKey) = n
        /\ OccursAt(LookupKey) # {}
        /\ Has(outlm, LookupKey) <=> FollowedAt(LookupKey) # {}
        /\ ~Has(outlm, LookupKey) =>
               /\ LookupKey = FinalHistory
               /\ OccursAt(LookupKey) = {Len(data) - n}
        /\ Has(outlm, PadOf(n))
        /\ LookupFailed =>
               /\ gi >= 1
               /\ ~Has(outlm, LookupKey)
               /\ LastOf(PadOf(n) \o out, n) = FinalHistory
        /\ (gi = 0 /\ pc = "failed") => result.kind = "TypeError"

\* a lookup failed after the output reproduced the end of the training stream
LookupFailedAtTheEnd ==
    /\ GeneratingFromTrained
    /\ LookupFailed
    /\ n = 2
    /\ gi = 1
    /\ LookupKey = FinalHistory
    /\ LookupKey[2] = out[1]

\* C25: every history looked up during generation from a model trained on a
\* stream longer than n is a length-n substring of the training stream, and
\* is absent from the model only if it is the final n characters of the
\* stream and occurs nowhere else in it followed by a character. The all-pad
\* history is always present, so the first generation step never fails, and
\* a failure can only happen right after the output has reproduced the end
\* of the stream.
C25_FirstStepNeverFails ==
    GeneratingFromTrained =>
        /\ OccursAt(LookupKey) # {}
        /\ ~Has(outlm, LookupKey) =>
               /\ LookupKey = FinalHistory
               /\ FollowedAt(LookupKey) = {}
        /\ Has(outlm, PadOf(n))
        /\ pc = "failed" =>
               /\ gi >= 1
               /\ LastOf(PadOf(n) \o out, n) = FinalHistory

\* ---------------------------------------------------------------------
\* the training corpus scored against its own model

\* perplexity called with the documents and the order the model was trained on
ScoringTrainingCorpus == InPerplexity /\ test_data = texts /\ pn = n /\ n >= 1

\* C26: scoring the training corpus itself, same documents and same order,
\* never skips a position and never records an unknown outcome: each of the
\* len(stream) - n positions has its history in the model and its character
\* in that history's distribution, so the log-sum is the sum of
\* ln(model[h][c]) over all positions and no correction term is added.
C26_TrainingCorpusFullyScored ==
    ScoringTrainingCorpus =>
        /\ pdata = data
        /\ \A p \in TestPositions : IsScored(p)
        /\ SkippedPositions(pi) = {} /\ UnknownPositions(pi) = {}
        /\ unk_hist = <<>> /\ uj = 0
        /\ logsum = SubSeq(TrainingTerms, 1, pi)
        /\ (pc = "scored" /\ texts # <<>>) =>
               /\ result.kind = "float"
               /\ pi = Len(data) - n
               /\ result.logsum = TrainingTerms

\* the sentence of the notebook scored against the model trained on it: all
\* 18 positions scored, two of them with probability 1/2
C26_Witness ==
    /\ ScoringTrainingCorpus
    /\ pc = "scored"
    /\ texts = <<Remix>>
    /\ Len(result.logsum) = 18
    /\ Likelihood(result.logsum) = <<1, 4>>
    /\ result.divisor = 20

====
